---- MODULE Spec2Model ----
(***************************************************************************)
(* Model of dispositivos_iot.py: the device classes DispositivoIoT,       *)
(* SensorTemperatura, SensorHumedad, ActuadorLuz and the monitoring loop   *)
(* simulacion_monitoreo.                                                   *)
(*                                                                         *)
(* Floating-point quantities (temperatures, humidities, the threshold) are *)
(* integers counting thousandths, so that the two-decimal rounding of a    *)
(* reading is a real conversion.  A Python value passed to or returned by  *)
(* a method is a record [tipo, val]: val counts units for "int" and "bool" *)
(* (True is the integer 1), thousandths for "float", and is 0 for "str"    *)
(* and "None".                                                             *)
(***************************************************************************)
EXTENDS Integers, Sequences, FiniteSets, TLC

VARIABLES
    dispositivos,   \* the list handed to the loop: the class of each object
    id_dispositivo, \* DispositivoIoT.__id_dispositivo of each object
    estado,         \* DispositivoIoT.__estado of each object
    temperatura,    \* SensorTemperatura.__temperatura (thousandths of a degree)
    humedad,        \* SensorHumedad.__humedad (thousandths of a percent)
    intensidad,     \* ActuadorLuz.__intensidad
    pc,             \* where simulacion_monitoreo stands ("inactivo": not running)
    ciclos,         \* parameter ciclos of the running call
    umbral_temp,    \* parameter umbral_temp of the running call (thousandths)
    ciclo,          \* the loop variable of "for ciclo in range(1, ciclos + 1)"
    k,              \* position of the running "for d in dispositivos"
    alarma_calor,   \* local alarma_calor of the running call
    traza,          \* what the running cycle has done so far, in order
    ultima          \* the last call made by the caller, with what it returned

vars == << dispositivos, id_dispositivo, estado, temperatura, humedad,
           intensidad, pc, ciclos, umbral_temp, ciclo, k, alarma_calor,
           traza, ultima >>

----------------------------------------------------------------------------
\* Bounds of the model.

\* Largest cycle count handed to simulacion_monitoreo.
MaxCiclos == 2

\* The cycle counts handed to simulacion_monitoreo; range(1, n + 1) is empty
\* for n <= 0.
Ciclos == (-1) .. MaxCiclos

----------------------------------------------------------------------------
\* Program constants.

TEMP_MIN == 20000
TEMP_MAX == 40000
HUM_MIN == 30000
HUM_MAX == 90000
INTENSIDAD_MIN == 0
INTENSIDAD_MAX == 100
INTENSIDAD_ALARMA == 80
INTENSIDAD_NORMAL == 20
UMBRAL_DEFECTO == 30000

\* The device lists the loop is run on: the classes of the objects, in order.
Listas ==
    { << >>,
      << "SensorHumedad", "ActuadorLuz" >>,
      << "SensorTemperatura", "SensorHumedad", "ActuadorLuz" >>,
      << "SensorTemperatura", "SensorTemperatura", "ActuadorLuz" >>,
      << "ActuadorLuz", "SensorTemperatura", "ActuadorLuz" >> }

\* The thresholds the loop is run with: the default, and one below 0.0.
Umbrales == { UMBRAL_DEFECTO, -1000 }

\* The outcomes of random.random() the model draws, in ten-thousandths.
random == { 0, 5002, 5003, 9999 }

None == [tipo |-> "None", val |-> 0]
PyInt(n) == [tipo |-> "int", val |-> n]
PyFloat(x) == [tipo |-> "float", val |-> x]

\* The values a caller hands to ajustar_intensidad: integers at and around the
\* limits, True, the floats 20.0 and 50.5, and a string.
Valores ==
    { PyInt(-1), PyInt(0), PyInt(100), PyInt(101),
      [tipo |-> "bool", val |-> 1],
      PyFloat(20000), PyFloat(50500),
      [tipo |-> "str", val |-> 0] }

----------------------------------------------------------------------------
\* Python built-ins.

\* isinstance(valor, int): bool is a subclass of int.
isinstance_int(valor) == valor.tipo \in { "int", "bool" }

\* round(x, 2) of a float counted in thousandths: to the nearest hundredth,
\* a tie going to the even hundredth.
round2(x) ==
    LET q == x \div 10
        r == x % 10
    IN  IF r < 5 THEN q * 10
        ELSE IF r > 5 THEN (q + 1) * 10
        ELSE IF q % 2 = 0 THEN q * 10
        ELSE (q + 1) * 10

\* random.uniform(a, b) == a + (b - a) * random.random(): the values it can give.
uniform(a, b) == { a + ((b - a) * r) \div 10000 : r \in random }

----------------------------------------------------------------------------
\* The methods, as functions of the fields they read.

\* SensorTemperatura.leer_temperatura: the values it can store and return.
leer_temperatura(est) ==
    IF est THEN { round2(x) : x \in uniform(TEMP_MIN, TEMP_MAX) }
    ELSE { 0 }

\* leer_humedad drawing from the temperature range, as a copy of
\* leer_temperatura left unedited would.
leer_humedad_rango_temperatura(est) ==
    IF est THEN { round2(x) : x \in uniform(TEMP_MIN, TEMP_MAX) }
    ELSE { 0 }

\* leer_humedad giving the lowest humidity, not 0.0, when the sensor is off.
leer_humedad_sin_reinicio(est) ==
    IF est THEN { round2(x) : x \in uniform(HUM_MIN, HUM_MAX) }
    ELSE { HUM_MIN }

\* SensorHumedad.leer_humedad: the values it can store and return.
leer_humedad(est) ==
    IF est THEN { round2(x) : x \in uniform(HUM_MIN, HUM_MAX) }
    ELSE { 0 }

\* ajustar_intensidad with the upper limit excluded.
ajustar_intensidad_estricto(est, inten, valor) ==
    IF ~est
    THEN [intensidad |-> inten, msg |-> "ADVERTENCIA", excepcion |-> FALSE]
    ELSE IF ~isinstance_int(valor)
    THEN [intensidad |-> inten, msg |-> "ERROR_TIPO", excepcion |-> FALSE]
    ELSE IF INTENSIDAD_MIN <= valor.val /\ valor.val < INTENSIDAD_MAX
    THEN [intensidad |-> valor.val, msg |-> "INFO", excepcion |-> FALSE]
    ELSE [intensidad |-> inten, msg |-> "ERROR_RANGO", excepcion |-> FALSE]

\* ajustar_intensidad without the check of the power state.
ajustar_intensidad_sin_estado(est, inten, valor) ==
    IF ~isinstance_int(valor)
    THEN [intensidad |-> inten, msg |-> "ERROR_TIPO", excepcion |-> FALSE]
    ELSE IF INTENSIDAD_MIN <= valor.val /\ valor.val <= INTENSIDAD_MAX
    THEN [intensidad |-> valor.val, msg |-> "INFO", excepcion |-> FALSE]
    ELSE [intensidad |-> inten, msg |-> "ERROR_RANGO", excepcion |-> FALSE]

\* ajustar_intensidad without the check of the range.
ajustar_intensidad_sin_rango(est, inten, valor) ==
    IF ~est
    THEN [intensidad |-> inten, msg |-> "ADVERTENCIA", excepcion |-> FALSE]
    ELSE IF ~isinstance_int(valor)
    THEN [intensidad |-> inten, msg |-> "ERROR_TIPO", excepcion |-> FALSE]
    ELSE [intensidad |-> valor.val, msg |-> "INFO", excepcion |-> FALSE]

\* ActuadorLuz.ajustar_intensidad: the intensity after the call, the kind of
\* line printed and whether the call raised.
ajustar_intensidad(est, inten, valor) ==
    IF ~est
    THEN [intensidad |-> inten, msg |-> "ADVERTENCIA", excepcion |-> FALSE]
    ELSE IF ~isinstance_int(valor)
    THEN [intensidad |-> inten, msg |-> "ERROR_TIPO", excepcion |-> FALSE]
    ELSE IF INTENSIDAD_MIN <= valor.val /\ valor.val <= INTENSIDAD_MAX
    THEN [intensidad |-> valor.val, msg |-> "INFO", excepcion |-> FALSE]
    ELSE [intensidad |-> inten, msg |-> "ERROR_RANGO", excepcion |-> FALSE]

Indices == DOMAIN dispositivos
DeClase(c) == { d \in Indices : dispositivos[d] = c }
Sensores == DeClase("SensorTemperatura") \cup DeClase("SensorHumedad")
Luces == DeClase("ActuadorLuz")

\* The measurement mostrar_datos prints after the base line.
dato(d) ==
    IF dispositivos[d] = "SensorTemperatura" THEN temperatura[d]
    ELSE IF dispositivos[d] = "SensorHumedad" THEN humedad[d]
    ELSE intensidad[d]

\* The lines mostrar_datos prints for device d.
mostrar_datos(d) ==
    [clase |-> dispositivos[d], id |-> id_dispositivo[d],
     estado_str |-> IF estado[d] THEN "Encendido" ELSE "Apagado",
     dato |-> dato(d)]

\* temperaturas = [d.temperatura for d in dispositivos if isinstance(d, SensorTemperatura)]
temperaturas(disp, temp) ==
    { temp[d] : d \in { e \in DOMAIN disp : disp[e] = "SensorTemperatura" } }

\* The alarm raised at the threshold itself.
any_desde_umbral(ts, umbral) == \E t \in ts : t >= umbral

\* any(t > umbral_temp for t in temperaturas)
any_sobre_umbral(ts, umbral) == \E t \in ts : t > umbral

----------------------------------------------------------------------------
\* Construction: every device off, every measurement at its zero.

\* A call as the caller sees it: the method, the object, the argument, the
\* value returned, the kind of line printed, whether it raised, and the
\* object's measurement or intensity when the call was made.
Llamada(op, d, arg, ret, msg, exc, antes) ==
    [op |-> op, d |-> d, arg |-> arg, ret |-> ret, msg |-> msg,
     excepcion |-> exc, antes |-> antes]

Init ==
    /\ dispositivos \in Listas
    /\ id_dispositivo = [d \in DOMAIN dispositivos |-> d]
    /\ estado = [d \in DOMAIN dispositivos |-> FALSE]
    /\ temperatura = [d \in DeClase("SensorTemperatura") |-> 0]
    /\ humedad = [d \in DeClase("SensorHumedad") |-> 0]
    /\ intensidad = [d \in DeClase("ActuadorLuz") |-> 0]
    /\ pc = "inactivo"
    /\ ciclos = 0
    /\ umbral_temp = 0
    /\ ciclo = 0
    /\ k = 0
    /\ alarma_calor = FALSE
    /\ traza = << >>
    /\ ultima = Llamada("__init__", 0, None, None, "", FALSE, 0)

locales == << pc, ciclos, umbral_temp, ciclo, k, alarma_calor, traza >>
identidad == << dispositivos, id_dispositivo >>

----------------------------------------------------------------------------
\* Calls made by the caller while the loop is not running.

encender(d) ==
    /\ pc = "inactivo"
    /\ estado' = [estado EXCEPT ![d] = TRUE]
    /\ ultima' = Llamada("encender", d, None, None, "INFO", FALSE, 0)
    /\ UNCHANGED << identidad, temperatura, humedad, intensidad, locales >>

apagar(d) ==
    /\ pc = "inactivo"
    /\ estado' = [estado EXCEPT ![d] = FALSE]
    /\ ultima' = Llamada("apagar", d, None, None, "INFO", FALSE, 0)
    /\ UNCHANGED << identidad, temperatura, humedad, intensidad, locales >>

LlamarLeerTemperatura(d) ==
    /\ pc = "inactivo"
    /\ dispositivos[d] = "SensorTemperatura"
    /\ \E t \in leer_temperatura(estado[d]) :
          /\ temperatura' = [temperatura EXCEPT ![d] = t]
          /\ ultima' = Llamada("leer_temperatura", d, None, PyFloat(t), "", FALSE,
                               temperatura[d])
    /\ UNCHANGED << identidad, estado, humedad, intensidad, locales >>

LlamarLeerHumedad(d) ==
    /\ pc = "inactivo"
    /\ dispositivos[d] = "SensorHumedad"
    /\ \E h \in leer_humedad(estado[d]) :
          /\ humedad' = [humedad EXCEPT ![d] = h]
          /\ ultima' = Llamada("leer_humedad", d, None, PyFloat(h), "", FALSE,
                               humedad[d])
    /\ UNCHANGED << identidad, estado, temperatura, intensidad, locales >>

LlamarAjustarIntensidad(d, valor) ==
    /\ pc = "inactivo"
    /\ dispositivos[d] = "ActuadorLuz"
    /\ LET r == ajustar_intensidad(estado[d], intensidad[d], valor)
       IN  /\ intensidad' = [intensidad EXCEPT ![d] = r.intensidad]
           /\ ultima' = Llamada("ajustar_intensidad", d, valor, None, r.msg,
                               r.excepcion, intensidad[d])
    /\ UNCHANGED << identidad, estado, temperatura, humedad, locales >>

LlamarMostrarDatos(d) ==
    /\ pc = "inactivo"
    /\ ultima' = Llamada("mostrar_datos", d, None, None, "", FALSE, dato(d))
    /\ UNCHANGED << identidad, estado, temperatura, humedad, intensidad, locales >>

----------------------------------------------------------------------------
\* simulacion_monitoreo, one step per iteration of each of its loops.

Evento(op, d, val) == [op |-> op, d |-> d, val |-> val]

\* The call: the parameters are bound and the opening banner is printed.
Iniciar(n, umbral) ==
    /\ pc = "inactivo"
    /\ pc' = "ciclo"
    /\ ciclos' = n
    /\ umbral_temp' = umbral
    /\ ciclo' = 0
    /\ k' = 0
    /\ alarma_calor' = FALSE
    /\ traza' = << >>
    /\ ultima' = Llamada("simulacion_monitoreo", 0, PyInt(n), None, "", FALSE, 0)
    /\ UNCHANGED << identidad, estado, temperatura, humedad, intensidad >>

\* The loop running one cycle too many.
SiguienteCicloDeMas ==
    /\ pc = "ciclo"
    /\ IF ciclo <= ciclos
       THEN /\ ciclo' = ciclo + 1
            /\ pc' = "sensar"
            /\ k' = 1
            /\ traza' = << >>
            /\ UNCHANGED << ciclos, umbral_temp, alarma_calor >>
       ELSE /\ pc' = "inactivo"
            /\ ciclos' = 0
            /\ umbral_temp' = 0
            /\ ciclo' = 0
            /\ k' = 0
            /\ alarma_calor' = FALSE
            /\ traza' = << >>
    /\ UNCHANGED << identidad, estado, temperatura, humedad, intensidad, ultima >>

\* for ciclo in range(1, ciclos + 1): the next cycle starts, or the call returns.
SiguienteCiclo ==
    /\ pc = "ciclo"
    /\ IF ciclo < ciclos
       THEN /\ ciclo' = ciclo + 1
            /\ pc' = "sensar"
            /\ k' = 1
            /\ traza' = << >>
            /\ UNCHANGED << ciclos, umbral_temp, alarma_calor >>
       ELSE /\ pc' = "inactivo"
            /\ ciclos' = 0
            /\ umbral_temp' = 0
            /\ ciclo' = 0
            /\ k' = 0
            /\ alarma_calor' = FALSE
            /\ traza' = << >>
    /\ UNCHANGED << identidad, estado, temperatura, humedad, intensidad, ultima >>

\* The first phase reading the temperature sensors only.
SensarSoloTemperatura ==
    /\ pc = "sensar"
    /\ IF k \in Indices
       THEN /\ k' = k + 1
            /\ pc' = pc
            /\ IF dispositivos[k] = "SensorTemperatura"
               THEN \E t \in leer_temperatura(estado[k]) :
                       /\ temperatura' = [temperatura EXCEPT ![k] = t]
                       /\ traza' = Append(traza, Evento("leer", k, t))
                       /\ UNCHANGED humedad
               ELSE UNCHANGED << temperatura, humedad, traza >>
       ELSE /\ pc' = "decidir"
            /\ k' = 0
            /\ UNCHANGED << temperatura, humedad, traza >>
    /\ UNCHANGED << identidad, estado, intensidad, ciclos, umbral_temp, ciclo,
                    alarma_calor, ultima >>

\* 1) the sensors are read, one device per step.
Sensar ==
    /\ pc = "sensar"
    /\ IF k \in Indices
       THEN /\ k' = k + 1
            /\ pc' = pc
            /\ IF dispositivos[k] = "SensorTemperatura"
               THEN \E t \in leer_temperatura(estado[k]) :
                       /\ temperatura' = [temperatura EXCEPT ![k] = t]
                       /\ traza' = Append(traza, Evento("leer", k, t))
                       /\ UNCHANGED humedad
               ELSE IF dispositivos[k] = "SensorHumedad"
               THEN \E h \in leer_humedad(estado[k]) :
                       /\ humedad' = [humedad EXCEPT ![k] = h]
                       /\ traza' = Append(traza, Evento("leer", k, h))
                       /\ UNCHANGED temperatura
               ELSE UNCHANGED << temperatura, humedad, traza >>
       ELSE /\ pc' = "decidir"
            /\ k' = 0
            /\ UNCHANGED << temperatura, humedad, traza >>
    /\ UNCHANGED << identidad, estado, intensidad, ciclos, umbral_temp, ciclo,
                    alarma_calor, ultima >>

\* 2) the alarm is computed from the stored temperatures.
Decidir ==
    /\ pc = "decidir"
    /\ alarma_calor' = any_sobre_umbral(temperaturas(dispositivos, temperatura), umbral_temp)
    /\ traza' = Append(traza, Evento("decidir", 0, IF alarma_calor' THEN 1 ELSE 0))
    /\ pc' = "actuar"
    /\ k' = 1
    /\ UNCHANGED << identidad, estado, temperatura, humedad, intensidad, ciclos,
                    umbral_temp, ciclo, ultima >>

\* The argument the loop hands to every light.
consigna(alarma) == IF alarma THEN INTENSIDAD_ALARMA ELSE INTENSIDAD_NORMAL

\* The third phase ending at the first light that is off.
ActuarHastaApagado ==
    /\ pc = "actuar"
    /\ IF k \in Indices /\ ~(dispositivos[k] = "ActuadorLuz" /\ ~estado[k])
       THEN /\ k' = k + 1
            /\ pc' = pc
            /\ IF dispositivos[k] = "ActuadorLuz"
               THEN LET v == consigna(alarma_calor)
                        r == ajustar_intensidad(estado[k], intensidad[k], PyInt(v))
                    IN  /\ intensidad' = [intensidad EXCEPT ![k] = r.intensidad]
                        /\ traza' = Append(traza, Evento("ajustar", k, v))
               ELSE UNCHANGED << intensidad, traza >>
       ELSE /\ pc' = "mostrar"
            /\ k' = 1
            /\ UNCHANGED << intensidad, traza >>
    /\ UNCHANGED << identidad, estado, temperatura, humedad, ciclos, umbral_temp,
                    ciclo, alarma_calor, ultima >>

\* 3) the lights are adjusted, one device per step.
Actuar ==
    /\ pc = "actuar"
    /\ IF k \in Indices
       THEN /\ k' = k + 1
            /\ pc' = pc
            /\ IF dispositivos[k] = "ActuadorLuz"
               THEN LET v == consigna(alarma_calor)
                        r == ajustar_intensidad(estado[k], intensidad[k], PyInt(v))
                    IN  /\ intensidad' = [intensidad EXCEPT ![k] = r.intensidad]
                        /\ traza' = Append(traza, Evento("ajustar", k, v))
               ELSE UNCHANGED << intensidad, traza >>
       ELSE /\ pc' = "mostrar"
            /\ k' = 1
            /\ UNCHANGED << intensidad, traza >>
    /\ UNCHANGED << identidad, estado, temperatura, humedad, ciclos, umbral_temp,
                    ciclo, alarma_calor, ultima >>

\* The report switching on the device it reports.
MostrarEnciende ==
    /\ pc = "mostrar"
    /\ IF k \in Indices
       THEN /\ k' = k + 1
            /\ pc' = pc
            /\ estado' = [estado EXCEPT ![k] = TRUE]
            /\ traza' = Append(traza, Evento("mostrar", k, mostrar_datos(k).dato))
       ELSE /\ pc' = "pausa"
            /\ k' = 0
            /\ UNCHANGED << estado, traza >>
    /\ UNCHANGED << identidad, temperatura, humedad, intensidad, ciclos,
                    umbral_temp, ciclo, alarma_calor, ultima >>

\* 4) every device reports, one device per step.
Mostrar ==
    /\ pc = "mostrar"
    /\ IF k \in Indices
       THEN /\ k' = k + 1
            /\ pc' = pc
            /\ traza' = Append(traza, Evento("mostrar", k, mostrar_datos(k).dato))
       ELSE /\ pc' = "pausa"
            /\ k' = 0
            /\ UNCHANGED traza
    /\ UNCHANGED << identidad, estado, temperatura, humedad, intensidad, ciclos,
                    umbral_temp, ciclo, alarma_calor, ultima >>

\* time.sleep(pausa_seg), for a pause that is a duration (finite, not
\* negative): the call returns and changes nothing.
Pausa ==
    /\ pc = "pausa"
    /\ pc' = "ciclo"
    /\ UNCHANGED << identidad, estado, temperatura, humedad, intensidad, ciclos,
                    umbral_temp, ciclo, k, alarma_calor, traza, ultima >>

PasoBucle == SiguienteCiclo \/ Sensar \/ Decidir \/ Actuar \/ Mostrar \/ Pausa

Next ==
    \/ \E d \in Indices : encender(d)
    \/ \E d \in Indices : apagar(d)
    \/ \E d \in Indices : LlamarLeerTemperatura(d)
    \/ \E d \in Indices : LlamarLeerHumedad(d)
    \/ \E d \in Indices, valor \in Valores : LlamarAjustarIntensidad(d, valor)
    \/ \E d \in Indices : LlamarMostrarDatos(d)
    \/ \E n \in Ciclos, umbral \in Umbrales : Iniciar(n, umbral)
    \/ PasoBucle

Spec == Init /\ [][Next]_vars

\* The behaviours in which a running call of simulacion_monitoreo keeps
\* executing: it is sequential code and time.sleep returns.
FairSpec == Spec /\ WF_vars(PasoBucle)

----------------------------------------------------------------------------
\* Properties.

EsLlamada(u, op) == u.op = op /\ u.d \in Indices

\* The value an integer in [0,100] of either integer class stands for.
EsEnteroEnRango(v) ==
    v.tipo \in { "int", "bool" } /\ 0 <= v.val /\ v.val <= 100

\* C1: a call of ajustar_intensidad(v) on a light that is on sets the
\* intensity to v when v is an integer in [0,100], and to nothing else: for
\* every other v (an integer outside the range, a float, a string) the
\* intensity is what it was before the call and differs from v; no other
\* light is touched.
C1_AjusteEncendido ==
    [][ (EsLlamada(ultima', "ajustar_intensidad") /\ estado[ultima'.d]) =>
          LET d == ultima'.d
              v == ultima'.arg
          IN  /\ EsEnteroEnRango(v) => intensidad'[d] = v.val
              /\ ~EsEnteroEnRango(v) => intensidad'[d] = intensidad[d]
              /\ (~EsEnteroEnRango(v) /\ v.tipo \in { "int", "bool" })
                    => intensidad'[d] # v.val
              /\ \A e \in Luces \ { d } : intensidad'[e] = intensidad[e] ]_vars

\* A light that is on holds 100 after 101 was refused.
C1_Testigo ==
    /\ EsLlamada(ultima, "ajustar_intensidad")
    /\ estado[ultima.d]
    /\ ultima.arg = PyInt(101)
    /\ ultima.antes = 100
    /\ intensidad[ultima.d] = 100

\* C2: a call of ajustar_intensidad(v) on a light that is off, made by the
\* caller or by the loop, leaves every intensity and every power state as it
\* was, whatever v is, prints the warning and does not raise.
C2_AjusteApagado ==
    [][ /\ (EsLlamada(ultima', "ajustar_intensidad") /\ ~estado[ultima'.d]) =>
              /\ intensidad' = intensidad
              /\ estado' = estado
              /\ ultima'.excepcion = FALSE
              /\ ultima'.msg = "ADVERTENCIA"
        /\ (pc = "actuar" /\ k \in Luces /\ ~estado[k]) =>
              /\ intensidad' = intensidad
              /\ estado' = estado
              /\ pc' = "actuar" ]_vars

\* A light that is off still holds the 80 of an earlier cycle after a valid
\* value was handed to it.
C2_Testigo ==
    /\ EsLlamada(ultima, "ajustar_intensidad")
    /\ ~estado[ultima.d]
    /\ ultima.arg = PyInt(100)
    /\ ultima.msg = "ADVERTENCIA"
    /\ intensidad[ultima.d] = 80

\* C3: a reading taken from a temperature or humidity sensor that is off, by
\* the caller or by the loop, returns 0.0 and leaves 0.0 stored, whatever was
\* stored before.
C3_LecturaApagado ==
    [][ /\ (EsLlamada(ultima', "leer_temperatura") /\ ~estado[ultima'.d]) =>
              ultima'.ret = PyFloat(0) /\ temperatura'[ultima'.d] = 0
        /\ (EsLlamada(ultima', "leer_humedad") /\ ~estado[ultima'.d]) =>
              ultima'.ret = PyFloat(0) /\ humedad'[ultima'.d] = 0
        /\ (pc = "sensar" /\ k \in DeClase("SensorTemperatura") /\ ~estado[k]) =>
              temperatura'[k] = 0
        /\ (pc = "sensar" /\ k \in DeClase("SensorHumedad") /\ ~estado[k]) =>
              humedad'[k] = 0 ]_vars

\* A humidity sensor that is off has lost the reading it held.
C3_Testigo ==
    /\ EsLlamada(ultima, "leer_humedad")
    /\ ~estado[ultima.d]
    /\ ultima.antes > 0
    /\ ultima.ret = PyFloat(0)
    /\ humedad[ultima.d] = 0

\* C4: a reading taken from a sensor that is on, by the caller or by the loop,
\* returns a float inside the sensor's range (20.0 to 40.0 degrees, 30.0 to
\* 90.0 percent) with at most two decimals, and that value is what is stored.
C4_LecturaEncendido ==
    [][ /\ (EsLlamada(ultima', "leer_temperatura") /\ estado[ultima'.d]) =>
              /\ ultima'.ret.tipo = "float"
              /\ 20000 <= ultima'.ret.val /\ ultima'.ret.val <= 40000
              /\ ultima'.ret.val % 10 = 0
              /\ temperatura'[ultima'.d] = ultima'.ret.val
        /\ (EsLlamada(ultima', "leer_humedad") /\ estado[ultima'.d]) =>
              /\ ultima'.ret.tipo = "float"
              /\ 30000 <= ultima'.ret.val /\ ultima'.ret.val <= 90000
              /\ ultima'.ret.val % 10 = 0
              /\ humedad'[ultima'.d] = ultima'.ret.val
        /\ (pc = "sensar" /\ k \in DeClase("SensorTemperatura") /\ estado[k]) =>
              20000 <= temperatura'[k] /\ temperatura'[k] <= 40000
        /\ (pc = "sensar" /\ k \in DeClase("SensorHumedad") /\ estado[k]) =>
              30000 <= humedad'[k] /\ humedad'[k] <= 90000 ]_vars

\* A humidity sensor that is on has returned and stored the lowest humidity,
\* which is below every temperature but 20.0.
C4_Testigo ==
    /\ EsLlamada(ultima, "leer_humedad")
    /\ estado[ultima.d]
    /\ ultima.ret = PyFloat(30000)
    /\ humedad[ultima.d] = 30000

\* The alarm the stored temperatures call for.
AlarmaEsperada ==
    \E d \in DeClase("SensorTemperatura") : temperatura[d] > umbral_temp

AjustesDe(d) == { j \in DOMAIN traza : traza[j].op = "ajustar" /\ traza[j].d = d }

\* C5: once a cycle has decided, alarma_calor is true exactly when some
\* temperature sensor of the list, on or off, holds a reading strictly above
\* the threshold (the humidity sensors do not count); every light is then
\* handed 80 under the alarm and 20 otherwise, in that cycle, and every light
\* that is on ends the cycle at that value.
C5_ReglaDeDecision ==
    /\ pc \in { "actuar", "mostrar", "pausa" } =>
          /\ alarma_calor = AlarmaEsperada
          /\ \A j \in DOMAIN traza :
                traza[j].op = "ajustar" =>
                   traza[j].val = IF AlarmaEsperada THEN 80 ELSE 20
    /\ pc \in { "mostrar", "pausa" } =>
          \A d \in Luces :
             /\ AjustesDe(d) # { }
             /\ estado[d] => intensidad[d] = IF AlarmaEsperada THEN 80 ELSE 20

\* A cycle has ended under the alarm with one temperature at the threshold,
\* the other above it, and the light at 80.
C5_Testigo ==
    /\ pc = "pausa"
    /\ alarma_calor
    /\ \E d, e \in DeClase("SensorTemperatura") :
          temperatura[d] = umbral_temp /\ temperatura[e] > umbral_temp
    /\ \E d \in Luces : estado[d] /\ intensidad[d] = 80

\* C6: in every reachable state the intensity of every light is an integer
\* between 0 and 100.
C6_IntensidadEnRango ==
    \A d \in Luces : intensidad[d] \in 0 .. 100

\* A light set to 80 by a cycle has refused -1.
C6_Testigo ==
    /\ EsLlamada(ultima, "ajustar_intensidad")
    /\ estado[ultima.d]
    /\ ultima.arg = PyInt(-1)
    /\ ultima.msg = "ERROR_RANGO"
    /\ intensidad[ultima.d] = 80

N_ciclos == IF ciclos > 0 THEN ciclos ELSE 0

\* C7: a call of simulacion_monitoreo with cycle count N numbers its cycles
\* 1, 2, ... in steps of one, never past N, returns only from the head of the
\* loop with max(N, 0) cycles done, and does return; with N <= 0 its only step
\* is the return, which changes no device.
C7_TerminaTrasNCiclos ==
    /\ [][ /\ (pc = "inactivo" /\ pc' # "inactivo") =>
                 ciclo' = 0 /\ ciclos' = ultima'.arg.val
           /\ (pc = "ciclo" /\ pc' # "inactivo") =>
                 /\ pc' = "sensar"
                 /\ ciclo' = ciclo + 1
                 /\ 1 <= ciclo' /\ ciclo' <= ciclos
           /\ (pc # "inactivo" /\ pc' = "inactivo") =>
                 pc = "ciclo" /\ ciclo = N_ciclos
           /\ (pc \notin { "inactivo", "ciclo" }) =>
                 ciclo' = ciclo /\ ciclos' = ciclos /\ pc' # "inactivo"
           /\ (pc # "inactivo" /\ ciclos <= 0) =>
                 /\ pc' = "inactivo"
                 /\ UNCHANGED << identidad, estado, temperatura, humedad,
                                 intensidad >> ]_vars
    /\ (pc # "inactivo") ~> (pc = "inactivo")

\* A call for the largest cycle count has returned, with a light and a sensor
\* off throughout.
C7_Testigo ==
    /\ pc = "inactivo"
    /\ ultima.op = "simulacion_monitoreo"
    /\ ultima.arg = PyInt(MaxCiclos)
    /\ \E d \in Luces : ~estado[d]
    /\ \E d \in Sensores : ~estado[d]

Fase(op) ==
    CASE op = "leer" -> 1
      [] op = "decidir" -> 2
      [] op = "ajustar" -> 3
      [] op = "mostrar" -> 4

Hechos(op) == { j \in DOMAIN traza : traza[j].op = op }
ObjetosDe(op) == { traza[j].d : j \in Hechos(op) }

\* The alarm the readings taken in the running cycle call for.
AlarmaDeLecturas ==
    \E j \in Hechos("leer") :
       /\ traza[j].d \in DeClase("SensorTemperatura")
       /\ traza[j].val > umbral_temp

\* C8: what a cycle does comes in the order read, decide, adjust, report, and
\* inside a phase in the order of the list, once per device: the decision is
\* taken once, after every sensor of the list was read in this cycle and from
\* these readings; a light is adjusted only after the decision; a report is
\* printed only after every light was adjusted; the reports cover the devices
\* 1, 2, ... in list order, all of them by the end of the cycle.
C8_OrdenDeFases ==
    /\ \A i, j \in DOMAIN traza :
          i < j =>
             \/ Fase(traza[i].op) < Fase(traza[j].op)
             \/ Fase(traza[i].op) = Fase(traza[j].op) /\ traza[i].d < traza[j].d
    /\ Hechos("decidir") # { } =>
          /\ ObjetosDe("leer") = Sensores
          /\ \A j \in Hechos("decidir") :
                traza[j].val = IF AlarmaDeLecturas THEN 1 ELSE 0
    /\ Hechos("ajustar") # { } => Hechos("decidir") # { }
    /\ Hechos("mostrar") # { } =>
          Hechos("decidir") # { } /\ ObjetosDe("ajustar") = Luces
    /\ ObjetosDe("mostrar") = 1 .. Cardinality(Hechos("mostrar"))
    /\ pc \in { "actuar", "mostrar", "pausa" } => Hechos("decidir") # { }
    /\ pc = "pausa" => ObjetosDe("mostrar") = Indices

\* A second cycle has decided for the alarm although the cycle before it had
\* ended without one.
C8_Testigo ==
    /\ pc = "actuar"
    /\ ciclo = 2
    /\ alarma_calor
    /\ \E d \in Luces : estado[d] /\ intensidad[d] = 20
    /\ \E d \in DeClase("SensorHumedad") : estado[d] /\ humedad[d] > 0

\* C9: a light that is off does not stop the others: the loop's call on it
\* changes no intensity and the third phase goes on, its call on a light that
\* is on sets that light and no other to the cycle's value, and so at the end
\* of every cycle, the first or a later one, every light that is on holds the
\* cycle's value whatever the state of the lights around it.
C9_FalloLocal ==
    /\ [][ (pc = "actuar" /\ k \in Luces) =>
             /\ pc' = "actuar" /\ k' = k + 1
             /\ intensidad'[k] =
                   IF estado[k] THEN (IF AlarmaEsperada THEN 80 ELSE 20)
                   ELSE intensidad[k]
             /\ \A e \in Luces \ { k } : intensidad'[e] = intensidad[e] ]_vars
    /\ [](pc \in { "mostrar", "pausa" } =>
            \A d \in Luces :
               estado[d] => intensidad[d] = IF AlarmaEsperada THEN 80 ELSE 20)

\* A cycle under the alarm has set the second light to 80 after the first
\* light, which is off, kept the 20 of an earlier cycle.
C9_Testigo ==
    /\ pc = "pausa"
    /\ alarma_calor
    /\ \E d, e \in Luces :
          /\ d < e
          /\ ~estado[d] /\ intensidad[d] = 20
          /\ estado[e] /\ intensidad[e] = 80

\* C10: every device is off when constructed; a power state changes only in
\* a call of encender or apagar on that device, which leave it on and off
\* whatever it was; no step changes the list or an identifier; the first
\* phase of a cycle changes no intensity.
C10_MarcoDeEstado ==
    /\ \A d \in Indices : ~estado[d]
    /\ [][ /\ \A d \in Indices :
                estado'[d] # estado[d] =>
                   \/ ultima'.op = "encender" /\ ultima'.d = d /\ estado'[d]
                   \/ ultima'.op = "apagar" /\ ultima'.d = d /\ ~estado'[d]
           /\ (pc = "inactivo" /\ EsLlamada(ultima', "encender")) =>
                 estado'[ultima'.d]
           /\ (pc = "inactivo" /\ EsLlamada(ultima', "apagar")) =>
                 ~estado'[ultima'.d]
           /\ (pc # "inactivo" \/ pc' # "inactivo") => estado' = estado
           /\ dispositivos' = dispositivos
           /\ id_dispositivo' = id_dispositivo
           /\ pc = "sensar" => intensidad' = intensidad ]_vars

\* A cycle has run to its end over a list with a device on, holding a
\* reading, and a device off.
C10_Testigo ==
    /\ pc = "pausa"
    /\ \E d \in Sensores : estado[d] /\ dato(d) > 0
    /\ \E d \in Indices : ~estado[d]
    /\ \E d \in Luces : estado[d] /\ intensidad[d] > 0

====
